---- MODULE Spec2Model ----
(***************************************************************************)
(* A model of nail (src/main.rs): an image is approximated by triangles.   *)
(* triangulate runs NUM_TRIANGLES rounds; in each round next_triangle      *)
(* draws N_ITERS random triangles in parallel, scores each one against a   *)
(* DOWNSCALE x DOWNSCALE copy of the input, and keeps the minimum.         *)
(*                                                                         *)
(* The program's sizes are scaled down: the proxy is DOWNSCALE = 5 pixels   *)
(* wide (64 in main.rs; 5 is the least width with width / 5 > 0, so that   *)
(* triangles still reach beyond the canvas), a round draws N_ITERS = 2     *)
(* candidates (10 000 in main.rs) and a run has NUM_TRIANGLES = 2 rounds   *)
(* (10 in main.rs).  Every formula of main.rs is kept in terms of these    *)
(* names.  The search draws each coordinate of a candidate from the two    *)
(* ends of its range (random_ends); Triangle::random on its own is the     *)
(* whole set (random).                                                     *)
(*                                                                         *)
(* Two library functions are modelled from their contract: blend is "over" *)
(* compositing in integer arithmetic, resize is nearest-neighbour          *)
(* sampling; get_pixel panics on a coordinate outside the image.           *)
(***************************************************************************)
EXTENDS Integers, Sequences, FiniteSets

VARIABLES
    pc,               \* position of do_stuff / triangulate / main
    overflow_checks,  \* build profile: TRUE = debug (overflow panics), FALSE = release (wraps)
    image,            \* the decoded input image (do_stuff, line 303)
    downsampled,      \* triangulate: the DOWNSCALE x DOWNSCALE evaluation target
    buffer,           \* triangulate: the working canvas
    svg,              \* triangulate: the Svg under construction
    round,            \* triangulate: rounds completed by the for loop
    iter,             \* next_triangle: candidates evaluated in the current round
    best,             \* next_triangle: running result of min_by_key
    result,           \* what triangulate returned to do_stuff
    file,             \* the file Svg::save wrote
    fault,            \* the panic that stopped the process, if any
    winners,          \* history: the value next_triangle returned in each completed round
    cands,            \* history: the results (None, or the score) of the current round's candidates
    call              \* a single call of one of the pure functions, with its result

vars == <<pc, overflow_checks, image, downsampled, buffer, svg, round, iter,
          best, result, file, fault, winners, cands, call>>

progVars == <<pc, overflow_checks, image, downsampled, buffer, svg, round, iter,
              best, result, file, fault, winners, cands>>

(***************************************************************************)
(* Program constants and the bounds of the model.                          *)
(***************************************************************************)
TRANSPARENCY == 230
PAD == 1

\* Scaled down from the program's 10, 10 000 and 64.
NUM_TRIANGLES == 2
N_ITERS == 2
DOWNSCALE == 5

\* Triangle vertices range over 0..MaxCoord when contains is called on its own.
MaxCoord == 3

None == [some |-> FALSE]
Some(v) == [some |-> TRUE, val |-> v]

Min2(m, n) == IF m <= n THEN m ELSE n
Max2(m, n) == IF m >= n THEN m ELSE n
Abs(n) == IF n < 0 THEN -n ELSE n

(***************************************************************************)
(* Geometry.                                                               *)
(***************************************************************************)
Point(px, py) == [x |-> px, y |-> py]
Triangle(pa, pb, pc_) == [a |-> pa, b |-> pb, c |-> pc_]

\* rng.gen_range(low, high): any value of the half-open range.
gen_range(low, high) == low..(high - 1)

\* The two ends of the range of rng.gen_range(low, high).
gen_range_ends(low, high) == { v \in {low, high - 1} : low <= v /\ v < high }

\* The body of Triangle::random; each draw takes any value of its range, or
\* (ends) one of the two ends of it.
triangles(ends, width, height) ==
    LET hw == width \div 5
        hh == height \div 5
        range(low, high) == IF ends THEN gen_range_ends(low, high)
                            ELSE gen_range(low, high)
    IN  UNION { UNION { UNION { UNION { UNION {
            { Triangle(Point(ax, ay), Point(bx, by), Point(cx, cy)) :
                cy \in range(by, height) } :
              cx \in range(ax, bx) } :
             by \in range(-hh, height - PAD) } :
            bx \in range(ax + PAD, width + hw) } :
           ay \in range(-hh, height + hw) } :
          ax \in range(-hw, width - PAD) }

\* Triangle::random: the set of triangles one call can return.
random(width, height) == triangles(FALSE, width, height)

\* Triangle::random when every draw falls on an end of its range: the
\* triangles the search of the model draws from.
random_ends(width, height) == triangles(TRUE, width, height)

orient2d(a, b, c) == (b.x - a.x) * (c.y - a.y) - (b.y - a.y) * (c.x - a.x)

\* contains with the boundary left out (> for >=).
containsStrict(t, point) ==
    LET w0 == orient2d(t.a, t.b, point)
        w1 == orient2d(t.b, t.c, point)
        w2 == orient2d(t.c, t.a, point)
    IN  w0 > 0 /\ w1 > 0 /\ w2 > 0

\* Triangle::contains
contains(t, point) ==
    LET w0 == orient2d(t.a, t.b, point)
        w1 == orient2d(t.b, t.c, point)
        w2 == orient2d(t.c, t.a, point)
    IN  w0 >= 0 /\ w1 >= 0 /\ w2 >= 0

\* Triangle::bounding: <<x0, y0, x1, y1>>
bounding(t, w, h) ==
    LET min_x == Min2(Min2(t.a.x, t.b.x), t.c.x)
        min_y == Min2(Min2(t.a.y, t.b.y), t.c.y)
        max_x == Max2(Max2(Max2(t.a.x, t.b.x), t.c.x), 0)
        max_y == Max2(Max2(Max2(t.a.y, t.b.y), t.c.y), 0)
    IN  <<Max2(min_x, 0), Max2(min_y, 0), Min2(max_x, w), Min2(max_y, h)>>

\* The pixels the loops "for y in y0..y1 / for x in x0..x1 / if contains"
\* visit, in the order they are pushed (row by row).
RECURSIVE RowPixels(_, _, _, _)
RowPixels(t, x, x1, y) ==
    IF x >= x1 THEN <<>>
    ELSE (IF contains(t, Point(x, y)) THEN <<Point(x, y)>> ELSE <<>>)
         \o RowPixels(t, x + 1, x1, y)

RECURSIVE BoxPixels(_, _, _, _, _)
BoxPixels(t, x0, x1, y, y1) ==
    IF y >= y1 THEN <<>>
    ELSE RowPixels(t, x0, x1, y) \o BoxPixels(t, x0, x1, y + 1, y1)

covered(t, w, h) ==
    LET bb == bounding(t, w, h)
    IN  BoxPixels(t, bb[1], bb[3], bb[2], bb[4])

(***************************************************************************)
(* Images: [w, h, px], px the pixels row by row, each <<r, g, b, a>>.      *)
(***************************************************************************)
get_pixel(img, x, y) == img.px[y * img.w + x + 1]

InImage(img, x, y) == 0 <= x /\ x < img.w /\ 0 <= y /\ y < img.h

\* Pixel::blend of the image crate for Rgba<u8> ("over" compositing of the
\* colour c onto the pixel bg), in integer arithmetic.
blend(bg, c) ==
    LET fa == c[4]
        ba == bg[4]
        den == 255 * (ba + fa) - ba * fa
        ch(k) == (c[k] * fa * 255 + bg[k] * ba * (255 - fa)) \div den
    IN  IF den = 0 THEN bg
        ELSE <<ch(1), ch(2), ch(3), den \div 255>>

\* image::imageops::resize(&image, nw, nh, FilterType::Nearest)
resize(img, nw, nh) ==
    LET sx(x) == Min2(img.w - 1, ((2 * x + 1) * img.w) \div (2 * nw))
        sy(y) == Min2(img.h - 1, ((2 * y + 1) * img.h) \div (2 * nh))
    IN  [w |-> nw, h |-> nh,
         px |-> [i \in 1..(nw * nh) |->
                    get_pixel(img, sx((i - 1) % nw), sy((i - 1) \div nw))]]

RECURSIVE SumChannel(_, _, _)
SumChannel(px, k, i) ==
    IF i > Len(px) THEN 0 ELSE px[i][k] + SumChannel(px, k, i + 1)

\* triangulate::avg_color
avg_color(img) ==
    LET n == img.w * img.h
    IN  <<SumChannel(img.px, 1, 1) \div n,
          SumChannel(img.px, 2, 1) \div n,
          SumChannel(img.px, 3, 1) \div n,
          255>>

\* triangulate::fill_with
fill_with(img, color) == [img EXCEPT !.px = [i \in 1..Len(img.px) |-> color]]

\* triangulate::rasterize_triangle, with every pixel covered (no containment test).
rasterize_bounding_box(img, ct) ==
    LET bb == bounding(ct.triangle, img.w, img.h)
    IN  [img EXCEPT !.px = [i \in 1..Len(img.px) |->
            LET x == (i - 1) % img.w
                y == (i - 1) \div img.w
            IN  IF /\ bb[1] <= x /\ x < bb[3] /\ bb[2] <= y /\ y < bb[4]
                THEN blend(img.px[i], ct.color)
                ELSE img.px[i]]]

\* triangulate::rasterize_triangle
rasterize_triangle(img, ct) ==
    LET bb == bounding(ct.triangle, img.w, img.h)
    IN  [img EXCEPT !.px = [i \in 1..Len(img.px) |->
            LET x == (i - 1) % img.w
                y == (i - 1) \div img.w
            IN  IF /\ bb[1] <= x /\ x < bb[3] /\ bb[2] <= y /\ y < bb[4]
                   /\ contains(ct.triangle, Point(x, y))
                THEN blend(img.px[i], ct.color)
                ELSE img.px[i]]]

(***************************************************************************)
(* The score of next_triangle.                                             *)
(***************************************************************************)
\* An i16 after a wrapping operation.
WrapI16(n) ==
    LET m == n % 65536
    IN  IF m >= 32768 THEN m - 65536 ELSE m

\* (t as i16 - b as i16).pow(2) as isize: the value a release build computes.
squared_diff(t, b) == WrapI16((t - b) * (t - b))

\* The multiplication overflows an i16: a build with overflow checks panics.
squared_overflows(t, b) == (t - b) * (t - b) > 32767

\* old_error / new_error: the sum over R, G, B as isize.
pixel_error(t, p) ==
    squared_diff(t[1], p[1]) + squared_diff(t[2], p[2]) + squared_diff(t[3], p[3])

pixel_overflows(t, p) ==
    \/ squared_overflows(t[1], p[1])
    \/ squared_overflows(t[2], p[2])
    \/ squared_overflows(t[3], p[3])

\* The squared R, G, B error in unbounded integers.
exact_error(t, p) ==
    (t[1] - p[1]) * (t[1] - p[1]) + (t[2] - p[2]) * (t[2] - p[2])
        + (t[3] - p[3]) * (t[3] - p[3])

\* The true new_error - old_error of one pixel: target, before, candidate colour.
exact_delta(t, before, c) == exact_error(t, blend(before, c)) - exact_error(t, before)

(***************************************************************************)
(* next_triangle: one candidate (the closure given to flat_map).           *)
(***************************************************************************)
RECURSIVE SumTarget(_, _, _, _)
SumTarget(img, pixels, k, i) ==
    IF i > Len(pixels) THEN 0
    ELSE get_pixel(img, pixels[i].x, pixels[i].y)[k] + SumTarget(img, pixels, k, i + 1)

\* avg_pixel / pixels.len(), with the fixed opacity.
candidate_color(target_image, pixels) ==
    <<SumTarget(target_image, pixels, 1, 1) \div Len(pixels),
      SumTarget(target_image, pixels, 2, 1) \div Len(pixels),
      SumTarget(target_image, pixels, 3, 1) \div Len(pixels),
      TRANSPARENCY>>

\* The loop "for &(x, y) in &pixels": the sum s, or the panic that ends it.
\* get_pixel panics on a coordinate outside the image; pow(2) panics on
\* overflow when the build checks overflow, and wraps when it does not.
RECURSIVE score_loop(_, _, _, _, _, _)
score_loop(target_image, current_image, pixels, c, checks, i) ==
    IF i > Len(pixels) THEN [fault |-> "none", s |-> 0]
    ELSE LET x == pixels[i].x
             y == pixels[i].y
         IN  IF ~InImage(target_image, x, y) \/ ~InImage(current_image, x, y)
             THEN [fault |-> "index", s |-> 0]
             ELSE LET target == get_pixel(target_image, x, y)
                      before == get_pixel(current_image, x, y)
                      after == blend(before, c)
                  IN  IF checks /\ (pixel_overflows(target, before)
                                      \/ pixel_overflows(target, after))
                      THEN [fault |-> "overflow", s |-> 0]
                      ELSE LET rest == score_loop(target_image, current_image,
                                                  pixels, c, checks, i + 1)
                           IN  IF rest.fault # "none" THEN rest
                               ELSE [fault |-> "none",
                                     s |-> pixel_error(target, after)
                                             - pixel_error(target, before) + rest.s]

\* The closure: None for a triangle that covers no pixel, otherwise
\* Some((score, ColorTriangle)), unless the score loop panics.
candidate(target_image, current_image, triangle, checks) ==
    LET pixels == covered(triangle, target_image.w, target_image.h)
    IN  IF Len(pixels) = 0 THEN [fault |-> "none", out |-> None]
        ELSE LET color == candidate_color(target_image, pixels)
                 sc == score_loop(target_image, current_image, pixels, color, checks, 1)
             IN  [fault |-> sc.fault,
                  out |-> Some([score |-> sc.s,
                                ct |-> [triangle |-> triangle, color |-> color]])]

\* min_by_key keeping the larger score.
max_by_key(acc, item) ==
    IF ~item.some THEN {acc}
    ELSE IF ~acc.some THEN {item}
    ELSE IF item.val.score > acc.val.score THEN {item}
    ELSE IF item.val.score < acc.val.score THEN {acc}
    ELSE {acc, item}

\* min_by_key(|&(score, _)| score), one result at a time: the values the
\* running minimum can take once item has arrived (either one on a tie).
min_by_key(acc, item) ==
    IF ~item.some THEN {acc}
    ELSE IF ~acc.some THEN {item}
    ELSE IF item.val.score < acc.val.score THEN {item}
    ELSE IF item.val.score > acc.val.score THEN {acc}
    ELSE {acc, item}

(***************************************************************************)
(* Svg.                                                                    *)
(***************************************************************************)
HexDigits == <<"0", "1", "2", "3", "4", "5", "6", "7",
               "8", "9", "a", "b", "c", "d", "e", "f">>

\* format!("{:x}", n) for a u8: lower-case hexadecimal, no padding.
LowerHex(n) ==
    IF n < 16 THEN <<HexDigits[n + 1]>>
    ELSE <<HexDigits[(n \div 16) + 1], HexDigits[(n % 16) + 1]>>

\* Svg::save::color_to_hex
color_to_hex(c) == <<"#">> \o LowerHex(c[1]) \o LowerHex(c[2]) \o LowerHex(c[3])

\* (v as f32 * s) as i32 with s = n / DOWNSCALE: the product truncated toward zero.
scale_coord(v, n) ==
    IF v >= 0 THEN (v * n) \div DOWNSCALE ELSE -(((-v) * n) \div DOWNSCALE)

scale_point(p, w, h) == Point(scale_coord(p.x, w), scale_coord(p.y, h))

\* Svg::scale applied to one ColorTriangle, sx = w / DOWNSCALE, sy = h / DOWNSCALE
scale_triangle(ct, w, h) ==
    [ct EXCEPT !.triangle = Triangle(scale_point(ct.triangle.a, w, h),
                                     scale_point(ct.triangle.b, w, h),
                                     scale_point(ct.triangle.c, w, h))]

\* Svg::scale
scale(sv, w, h) ==
    [sv EXCEPT !.triangles = [i \in 1..Len(sv.triangles) |->
                                 scale_triangle(sv.triangles[i], w, h)]]

\* svg.triangles.push(triangle) at the front of the list instead of its end.
push_front(sv, ct) == [sv EXCEPT !.triangles = <<ct>> \o @]

\* svg.triangles.push(triangle)
push(sv, ct) == [sv EXCEPT !.triangles = Append(@, ct)]

\* Svg::save: the document written, as its parts.
save(sv) ==
    [width |-> sv.width, height |-> sv.height,
     fill |-> color_to_hex(sv.background),
     polygons |-> [i \in 1..Len(sv.triangles) |->
                      [points |-> sv.triangles[i].triangle,
                       fill |-> color_to_hex(sv.triangles[i].color),
                       opacity255 |-> sv.triangles[i].color[4]]]]

(***************************************************************************)
(* The idle program state, used while one pure function is exercised.      *)
(***************************************************************************)
NoImage == [w |-> 0, h |-> 0, px |-> <<>>]
NoCall == [fn |-> "none"]
NoSvg == [background |-> <<0, 0, 0, 0>>, triangles |-> <<>>, width |-> 0, height |-> 0]

Idle ==
    /\ pc = "idle"
    /\ overflow_checks = FALSE
    /\ image = NoImage
    /\ downsampled = NoImage
    /\ buffer = NoImage
    /\ svg = NoSvg
    /\ round = 0
    /\ iter = 0
    /\ best = None
    /\ result = "pending"
    /\ file = None
    /\ fault = "none"
    /\ winners = <<>>
    /\ cands = {}

(***************************************************************************)
(* Spec: do_stuff, triangulate and main on one input image.                *)
(***************************************************************************)
Dark == <<40, 60, 80, 255>>
Light == <<200, 180, 160, 255>>
Blue == <<0, 0, 255, 255>>
Yellow == <<255, 255, 0, 255>>

Patterns == {"corner", "stripes"}

\* corner: one dark pixel at the origin of a light image;
\* stripes: saturated columns, alternating.
PatternPixel(pat, x, y) ==
    IF pat = "corner" THEN (IF x = 0 /\ y = 0 THEN Dark ELSE Light)
    ELSE (IF x % 2 = 0 THEN Blue ELSE Yellow)

MakeImage(w, h, pat) ==
    [w |-> w, h |-> h,
     px |-> [i \in 1..(w * h) |-> PatternPixel(pat, (i - 1) % w, (i - 1) \div w)]]

\* As large as the proxy, narrower, shorter, larger.
ImageSizes == {<<DOWNSCALE, DOWNSCALE>>, <<DOWNSCALE - 1, DOWNSCALE>>,
               <<DOWNSCALE, DOWNSCALE - 1>>, <<DOWNSCALE + 1, DOWNSCALE + 1>>}

Inputs == { MakeImage(sz[1], sz[2], pat) : sz \in ImageSizes, pat \in Patterns }

\* do_stuff has read its argument and decoded the image.
Init ==
    /\ pc = "triangulate"
    /\ overflow_checks \in BOOLEAN
    /\ image \in Inputs
    /\ downsampled = NoImage
    /\ buffer = NoImage
    /\ svg = NoSvg
    /\ round = 0
    /\ iter = 0
    /\ best = None
    /\ result = "pending"
    /\ file = None
    /\ fault = "none"
    /\ winners = <<>>
    /\ cands = {}
    /\ call = NoCall

\* triangulate, lines 271-284: the proxy, the working canvas, the empty Svg.
Setup ==
    /\ pc = "triangulate"
    /\ downsampled' = resize(image, DOWNSCALE, DOWNSCALE)
    /\ buffer' = fill_with(image, avg_color(image))
    /\ svg' = [background |-> avg_color(image), triangles |-> <<>>,
               width |-> image.w, height |-> image.h]
    /\ pc' = "search"
    /\ UNCHANGED <<overflow_checks, image, round, iter, best, result, file,
                   fault, winners, cands, call>>

\* next_triangle: one of the N_ITERS parallel candidates, drawn as triangle,
\* finishes and its result reaches min_by_key; a panic in the closure ends
\* the process.
EvaluateWith(triangle) ==
    /\ pc = "search"
    /\ iter < N_ITERS
    /\ LET r == candidate(downsampled, buffer, triangle, overflow_checks)
       IN  IF r.fault # "none"
           THEN /\ pc' = "panicked"
                /\ fault' = r.fault
                /\ UNCHANGED <<iter, best>>
           ELSE /\ iter' = iter + 1
                /\ best' \in min_by_key(best, r.out)
                /\ UNCHANGED <<pc, fault>>
    /\ UNCHANGED <<overflow_checks, image, downsampled, buffer, svg, round,
                   result, file, winners, call>>

Evaluate ==
    \E triangle \in random_ends(downsampled.w, downsampled.h) :
        EvaluateWith(triangle) /\ UNCHANGED cands

\* triangulate, lines 287-291: next_triangle returned Some(triangle); it is
\* blended onto the working canvas and pushed.
RoundCommits ==
    /\ pc = "search"
    /\ iter = N_ITERS
    /\ best.some
    /\ buffer' = rasterize_triangle(buffer, best.val.ct)
    /\ svg' = push(svg, best.val.ct)
    /\ winners' = Append(winners, best.val)
    /\ round' = round + 1
    /\ iter' = 0
    /\ best' = None
    /\ pc' = IF round + 1 = NUM_TRIANGLES THEN "finalize" ELSE "search"
    /\ UNCHANGED <<overflow_checks, image, downsampled, result, file, fault, cands, call>>

\* The round is skipped when next_triangle returns None.
RoundSkips ==
    /\ pc = "search"
    /\ iter = N_ITERS
    /\ ~best.some
    /\ round' = round + 1
    /\ iter' = 0
    /\ pc' = IF round + 1 = NUM_TRIANGLES THEN "finalize" ELSE "search"
    /\ UNCHANGED <<overflow_checks, image, downsampled, buffer, svg, best, result,
                   file, fault, winners, cands, call>>

\* triangulate, lines 287-289: next_triangle returned None; the ? operators of
\* triangulate and do_stuff return Err(TriangulationFailed) to main.
RoundFails ==
    /\ pc = "search"
    /\ iter = N_ITERS
    /\ ~best.some
    /\ result' = "TriangulationFailed"
    /\ pc' = "failed"
    /\ UNCHANGED <<overflow_checks, image, downsampled, buffer, svg, round, iter,
                   best, file, fault, winners, cands, call>>

\* triangulate, lines 294-298: the triangles are scaled to the input's size.
Finalize ==
    /\ pc = "finalize"
    /\ svg' = scale(svg, image.w, image.h)
    /\ result' = "Ok"
    /\ pc' = "save"
    /\ UNCHANGED <<overflow_checks, image, downsampled, buffer, round, iter,
                   best, file, fault, winners, cands, call>>

\* do_stuff, lines 307-310: the SVG file is written.
Save ==
    /\ pc = "save"
    /\ file' = Some(save(svg))
    /\ pc' = "done"
    /\ UNCHANGED <<overflow_checks, image, downsampled, buffer, svg, round, iter,
                   best, result, fault, winners, cands, call>>

\* main, lines 314-317: any Err of do_stuff reaches unreachable!().
MainUnreachable ==
    /\ pc = "failed"
    /\ pc' = "panicked"
    /\ fault' = "unreachable"
    /\ UNCHANGED <<overflow_checks, image, downsampled, buffer, svg, round, iter,
                   best, result, file, winners, cands, call>>

Next ==
    \/ Setup
    \/ Evaluate
    \/ RoundCommits
    \/ RoundFails
    \/ Finalize
    \/ Save
    \/ MainUnreachable

Spec == Init /\ [][Next]_vars

(***************************************************************************)
(* SpecSearch: one call of next_triangle, with the result of every         *)
(* candidate recorded.                                                     *)
(***************************************************************************)
InitSearch ==
    /\ \E img \in Inputs :
         /\ image = img
         /\ downsampled = resize(img, DOWNSCALE, DOWNSCALE)
         /\ buffer = fill_with(img, avg_color(img))
         /\ svg = [background |-> avg_color(img), triangles |-> <<>>,
                   width |-> img.w, height |-> img.h]
    /\ pc = "search"
    /\ overflow_checks \in BOOLEAN
    /\ round = 0
    /\ iter = 0
    /\ best = None
    /\ result = "pending"
    /\ file = None
    /\ fault = "none"
    /\ winners = <<>>
    /\ cands = {}
    /\ call = NoCall

EvaluateRecorded ==
    \E triangle \in random_ends(downsampled.w, downsampled.h) :
        /\ EvaluateWith(triangle)
        /\ LET out == candidate(downsampled, buffer, triangle, overflow_checks).out
           IN  cands' = IF pc' = "panicked" THEN cands
                        ELSE IF out.some THEN cands \cup {Some(out.val.score)}
                        ELSE cands \cup {None}

NextSearch == EvaluateRecorded
SpecSearch == InitSearch /\ [][NextSearch]_vars

Scored == { c.val : c \in { d \in cands : d.some } }

\* C6: when the N_ITERS candidates have all arrived, in whatever order,
\* next_triangle's result is None exactly when every candidate covered zero
\* pixels; otherwise it is a candidate that covers a pixel and whose score is
\* the minimum of the scores of the round.
C6_MinOfRound ==
    (pc = "search" /\ iter = N_ITERS) =>
        /\ best.some <=> Scored # {}
        /\ best.some =>
             /\ Len(covered(best.val.ct.triangle, downsampled.w, downsampled.h)) > 0
             /\ best.val.score \in Scored
             /\ \A sc \in Scored : best.val.score <= sc

\* A round of candidates with different scores has been reduced.
C6_Witness ==
    /\ pc = "search"
    /\ iter = N_ITERS
    /\ best.some
    /\ \E sc \in Scored : sc > best.val.score

(***************************************************************************)
(* Claims about the run of triangulate (Spec).                             *)
(***************************************************************************)
\* The squared R, G, B error between target and canvas over the pixels the
\* search scores: the target's coordinates.
RECURSIVE SumError(_, _, _)
SumError(target, canvas, i) ==
    IF i > target.w * target.h THEN 0
    ELSE LET x == (i - 1) % target.w
             y == (i - 1) \div target.w
         IN  (IF InImage(canvas, x, y)
              THEN exact_error(get_pixel(target, x, y), get_pixel(canvas, x, y))
              ELSE 0) + SumError(target, canvas, i + 1)

TotalError(target, canvas) == SumError(target, canvas, 1)

\* The true change of the error over a triangle's footprint when it is blended.
RECURSIVE SumDelta(_, _, _, _, _)
SumDelta(target, canvas, pixels, c, i) ==
    IF i > Len(pixels) THEN 0
    ELSE exact_delta(get_pixel(target, pixels[i].x, pixels[i].y),
                     get_pixel(canvas, pixels[i].x, pixels[i].y), c)
         + SumDelta(target, canvas, pixels, c, i + 1)

FootprintDelta(ct, target, canvas) ==
    SumDelta(target, canvas, covered(ct.triangle, target.w, target.h), ct.color, 1)

\* C1: every coordinate next_triangle reads lies inside the target and
\* inside the working canvas, whichever triangle is drawn, and every
\* coordinate rasterize_triangle blends lies inside the working canvas.
C1_AccessInBounds ==
    pc = "search" =>
        \A t \in random(downsampled.w, downsampled.h) :
            /\ LET pixels == covered(t, downsampled.w, downsampled.h)
               IN  \A i \in 1..Len(pixels) :
                      /\ InImage(downsampled, pixels[i].x, pixels[i].y)
                      /\ InImage(buffer, pixels[i].x, pixels[i].y)
            /\ LET pixels == covered(t, buffer.w, buffer.h)
               IN  \A i \in 1..Len(pixels) : InImage(buffer, pixels[i].x, pixels[i].y)

\* C4: in every round the working canvas has the width and height of the
\* evaluation target.
C4_SameDimensions ==
    pc = "search" => (buffer.w = downsampled.w /\ buffer.h = downsampled.h)

\* C7: the triangle list is the sequence of the winners of the completed
\* rounds, in order (scaled once triangulate has returned); a run that
\* succeeds has NUM_TRIANGLES entries, and a shorter list is never returned.
C7_ListIsWinners ==
    /\ Len(winners) = round
    /\ pc \in {"search", "finalize", "failed", "panicked"} =>
          svg.triangles = [i \in 1..round |-> winners[i].ct]
    /\ pc \in {"save", "done"} =>
          svg.triangles = [i \in 1..NUM_TRIANGLES |->
                              scale_triangle(winners[i].ct, image.w, image.h)]
    /\ result = "Ok" <=> pc \in {"save", "done"}
    /\ file.some => file.val.polygons = [i \in 1..NUM_TRIANGLES |->
                        [points |-> svg.triangles[i].triangle,
                         fill |-> color_to_hex(svg.triangles[i].color),
                         opacity255 |-> svg.triangles[i].color[4]]]

\* A run has succeeded with two different winners.
C7_Witness ==
    /\ pc = "done"
    /\ Len(svg.triangles) = NUM_TRIANGLES
    /\ winners[1].ct # winners[2].ct

\* C8: when next_triangle yields no candidate, triangulate fails at once with
\* TriangulationFailed; from then on no round runs, canvas and list stay as
\* they are, nothing is returned and no file is written.
C8_FailureHalts ==
    [][ /\ (pc = "search" /\ iter = N_ITERS /\ ~best.some)
              => (pc' = "failed" /\ result' = "TriangulationFailed")
        /\ result' = "TriangulationFailed"
              => /\ buffer' = buffer
                 /\ svg' = svg
                 /\ round' = round
                 /\ file' = None
                 /\ pc' \in {"failed", "panicked"} ]_vars

\* A round after the first has failed, with a triangle already in the list.
C8_Witness ==
    /\ pc = "failed"
    /\ result = "TriangulationFailed"
    /\ round >= 1
    /\ Len(svg.triangles) >= 1
    /\ file = None

\* C9 as stated: the error over the scored pixels never increases from one
\* round to the next, and only a winner with score <= 0 is committed.
C9_ErrorNeverIncreases ==
    [][ round' = round + 1 =>
          /\ TotalError(downsampled, buffer') <= TotalError(downsampled, buffer)
          /\ best.val.score <= 0 ]_vars

\* C9 amended: a round changes the error over the scored pixels by exactly
\* the true error change of the committed winner over its footprint, of
\* either sign; the canvas changes at no other step of the search.
C9_ErrorChangesByWinnerDelta ==
    [][ pc = "search" =>
          IF round' = round + 1
          THEN TotalError(downsampled, buffer') - TotalError(downsampled, buffer)
                 = FootprintDelta(best.val.ct, downsampled, buffer)
          ELSE buffer' = buffer ]_vars

\* Two rounds have run and the second one increased the error.
C9_Witness ==
    /\ pc = "finalize"
    /\ round = 2
    /\ LET canvas0 == fill_with(image, avg_color(image))
           canvas1 == rasterize_triangle(canvas0, winners[1].ct)
       IN  TotalError(downsampled, buffer) > TotalError(downsampled, canvas1)

(***************************************************************************)
(* SpecCalls: one call of a function of main.rs on its own, with its result.*)
(***************************************************************************)
Dims == 2..DOWNSCALE
Vertices == { Point(vx, vy) : vx \in 0..MaxCoord, vy \in 0..MaxCoord }
Probes == { Point(vx, vy) : vx \in (-1)..(MaxCoord + 1), vy \in (-1)..(MaxCoord + 1) }

CallRandom ==
    /\ call = NoCall
    /\ \E width \in Dims, height \in Dims :
         \E t \in random(width, height) :
            call' = [fn |-> "random", width |-> width, height |-> height, t |-> t]
    /\ UNCHANGED progVars

CallContains ==
    /\ call = NoCall
    /\ \E va \in Vertices, vb \in Vertices, vc \in Vertices, p \in Probes :
         LET t == Triangle(va, vb, vc)
         IN  call' = [fn |-> "contains", t |-> t, p |-> p, out |-> contains(t, p)]
    /\ UNCHANGED progVars

\* Channel values on both sides of the i16 overflow of a squared difference.
TargetPixels == { <<r, g, b, 255>> : r \in {0, 128, 255}, g \in {0, 255}, b \in {90, 255} }
CanvasPixels == { <<r, g, b, 255>> : r \in {0, 100, 255}, g \in {73, 74}, b \in {0, 255} }
FillColors == { <<r, g, b, TRANSPARENCY>> : r \in {0, 255}, g \in {0, 255}, b \in {0, 255} }

\* The score of a candidate that covers the single pixel of a 1 x 1 target.
CallScore ==
    /\ call = NoCall
    /\ \E t \in TargetPixels, before \in CanvasPixels, c \in FillColors, checks \in BOOLEAN :
         call' = [fn |-> "score", target |-> t, before |-> before, color |-> c,
                  checks |-> checks,
                  out |-> score_loop([w |-> 1, h |-> 1, px |-> <<t>>],
                                     [w |-> 1, h |-> 1, px |-> <<before>>],
                                     <<Point(0, 0)>>, c, checks, 1)]
    /\ UNCHANGED progVars

\* Channel values of one and of two hexadecimal digits.
HexChannels == {1, 3, 18, 35, 255}
HexColors == { <<r, g, b, TRANSPARENCY>> : r \in HexChannels, g \in HexChannels, b \in HexChannels }

\* color_to_hex on two colours.
CallHex ==
    /\ call = NoCall
    /\ \E c1 \in HexColors, c2 \in HexColors :
         call' = [fn |-> "color_to_hex", c1 |-> c1, c2 |-> c2,
                  s1 |-> color_to_hex(c1), s2 |-> color_to_hex(c2)]
    /\ UNCHANGED progVars

InitCalls == Idle /\ call = NoCall
NextCalls == CallRandom \/ CallContains \/ CallScore \/ CallHex
SpecCalls == InitCalls /\ [][NextCalls]_vars

\* Plane geometry, stated without the edge functions: twice the area of the
\* triangle p q r by the shoelace formula.
Area2(p, q, r) == Abs(p.x * (q.y - r.y) + q.x * (r.y - p.y) + r.x * (p.y - q.y))

InHull(t, p) ==
    /\ Area2(p, t.a, t.b) + Area2(p, t.b, t.c) + Area2(p, t.c, t.a) = Area2(t.a, t.b, t.c)
    /\ Min2(Min2(t.a.x, t.b.x), t.c.x) <= p.x
    /\ p.x <= Max2(Max2(t.a.x, t.b.x), t.c.x)
    /\ Min2(Min2(t.a.y, t.b.y), t.c.y) <= p.y
    /\ p.y <= Max2(Max2(t.a.y, t.b.y), t.c.y)

StrictlyInside(t, p) ==
    /\ InHull(t, p)
    /\ Area2(p, t.a, t.b) > 0
    /\ Area2(p, t.b, t.c) > 0
    /\ Area2(p, t.c, t.a) > 0

StrictlyOutside(t, p) == ~InHull(t, p)
OnBoundary(t, p) == InHull(t, p) /\ ~StrictlyInside(t, p)

ContainsIsGeometric(t, p, out) ==
    /\ StrictlyInside(t, p) => out
    /\ StrictlyOutside(t, p) => ~out
    /\ OnBoundary(t, p) => out

\* C2: every triangle Triangle::random returns has the winding contains
\* assumes: orient2d(a, b, c) >= 0.
C2_RandomWinding ==
    call.fn = "random" => orient2d(call.t.a, call.t.b, call.t.c) >= 0

\* C5 as stated: for every triangle, in either vertex order, contains is true
\* strictly inside, false strictly outside and true on the boundary.
C5_ContainsAnyOrder ==
    call.fn = "contains" => ContainsIsGeometric(call.t, call.p, call.out)

\* C5 amended: the same, for the triangles with orient2d(a, b, c) > 0.
C5_ContainsPositiveWinding ==
    (call.fn = "contains" /\ orient2d(call.t.a, call.t.b, call.t.c) > 0)
        => ContainsIsGeometric(call.t, call.p, call.out)

\* A positively wound triangle with a point strictly inside it, one strictly
\* outside it or one on its boundary has been tested.
C5_Witness ==
    /\ call.fn = "contains"
    /\ orient2d(call.t.a, call.t.b, call.t.c) > 0
    /\ StrictlyInside(call.t, call.p)
    /\ call.out

\* C3: the score of a candidate is the exact integer sum, over its pixels,
\* of the squared R, G, B error after the blend minus the one before it.
C3_ScoreIsExact ==
    call.fn = "score" =>
        /\ call.out.fault = "none"
        /\ call.out.s = exact_delta(call.target, call.before, call.color)

\* The value of a hexadecimal digit.
DigitValue(ch) == CHOOSE v \in 0..15 : HexDigits[v + 1] = ch

IsHexDigit(ch) == \E v \in 0..15 : HexDigits[v + 1] = ch

\* The colour a fill string "#rrggbb" stands for.
Decodes(str, c) ==
    /\ Len(str) = 7
    /\ str[1] = "#"
    /\ \A i \in 2..7 : IsHexDigit(str[i])
    /\ \A k \in 1..3 : 16 * DigitValue(str[2 * k]) + DigitValue(str[2 * k + 1]) = c[k]

\* C10: color_to_hex gives '#' and six hexadecimal digits that decode, two
\* per channel, to the colour; distinct colours give distinct strings.
C10_HexRoundTrip ==
    call.fn = "color_to_hex" =>
        /\ Decodes(call.s1, call.c1)
        /\ Decodes(call.s2, call.c2)
        /\ call.s1 = call.s2 => call.c1 = call.c2

====
